---- MODULE Spec2Model ----
(***************************************************************************)
(* The sales-record materializer of the stockeazy schema: the tables       *)
(* products, invoices, invoice_items and sales_records, their foreign keys *)
(* and the triggers that derive sales_records from invoice_items.          *)
(* Tables are bags of rows (a table may hold two rows that agree on every  *)
(* modelled column); money is counted in whole units.                      *)
(***************************************************************************)
EXTENDS Integers, FiniteSets, Sequences, Bags, TLC

\* ---------------------------------------------------------------- bounds
MaxInvoices == 2
MaxItems == 2
MaxSales == 2
MaxInvoiceNo == 2
MaxNumbers == 4
MaxSessions == 2

\* ------------------------------------------------------- column domains
\* sql NULL of a nullable column; no id, cost or amount of the model is -1
NULL == -1
NULL_TEXT == "NULL"

InvoiceIds == 1..MaxInvoices
ProductIds == {1}
Statuses == {"done", "pending", NULL_TEXT}
Timestamps == {1, 2}
Costs == {NULL, 2}

\* what the application snapshots of the product it sells: its id and name
\* (product_id becomes NULL later, when the product is deleted)
ItemProducts ==
  {[product_id |-> 1, product_name |-> "Shirt"]}

\* quantity, unit_price and total_price of an item; the schema does not tie
\* total_price to quantity * unit_price
ItemAmounts ==
  {[quantity |-> 1, unit_price |-> 3, total_price |-> 3],
   [quantity |-> 2, unit_price |-> 3, total_price |-> 5]}

\* ------------------------------------------------------------ variables
\* the database, and the statement that led to its current state
VARIABLES products, invoices, invoice_items, sales_records, last

\* what lies outside the tables: statements and requests in flight, the rows
\* a view fetched and what it shows, the product selection dialog
VARIABLES tx, inserts, creation, numbers, rows, view, dialog

db == <<products, invoices, invoice_items, sales_records, last>>
app == <<tx, inserts, creation, numbers, rows, view, dialog>>
vars == <<db, app>>

\* ---------------------------------------------------------- bag helpers
RECURSIVE SumOver(_, _)
SumOver(B, S) ==
  IF S = {} THEN 0
  ELSE LET x == CHOOSE y \in S : TRUE IN B[x] + SumOver(B, S \ {x})

\* the rows of table B that are in S, a subset of DOMAIN B
Where(B, S) == [x \in S |-> B[x]]

\* the table obtained by rewriting every row x of B as f[x]
Select(B, f) ==
  [y \in {f[x] : x \in DOMAIN B} |->
     SumOver(B, {x \in DOMAIN B : f[x] = y})]

Count(B) == SumOver(B, DOMAIN B)

\* sql COALESCE over a nullable integer
COALESCE(a, b) == IF a = NULL THEN b ELSE a

\* sql arithmetic: NULL in, NULL out
Minus(a, b) == IF a = NULL \/ b = NULL THEN NULL ELSE a - b
Times(a, b) == IF a = NULL \/ b = NULL THEN NULL ELSE a * b

\* ------------------------------------------------------------ the tables
\* CREATE TABLE products: the rows that exist, by id
ProductRows == [cost_inr : Costs]

\* CREATE TABLE invoices: the rows that exist, by id; invoice_number n
\* stands for the text 'INV-' || LPAD(n, 6, '0'). The customer and amount
\* columns are read by no trigger and are left out
InvoiceRows ==
  [invoice_number : 1..MaxInvoiceNo, payment_status : Statuses,
   created_at : Timestamps]

\* the CHECK constraint of invoices.payment_status; as every sql CHECK it
\* rejects a row only when the condition is false, and a NULL status makes
\* the condition unknown
payment_status_check(s) == s = NULL_TEXT \/ s \in {"done", "pending"}

\* CREATE TABLE invoice_items
ItemRow(i, p, a) ==
  [invoice_id |-> i, product_id |-> p.product_id,
   product_name |-> p.product_name, size_name |-> "M", color_name |-> "Red",
   quantity |-> a.quantity, unit_price |-> a.unit_price,
   total_price |-> a.total_price]

\* the rows that the tables can hold
TypeOK ==
  /\ DOMAIN products \subseteq ProductIds
  /\ \A p \in DOMAIN products : products[p] \in ProductRows
  /\ DOMAIN invoices \subseteq InvoiceIds
  /\ \A i \in DOMAIN invoices : invoices[i] \in InvoiceRows
  /\ IsABag(invoice_items) /\ IsABag(sales_records)
  /\ \A r \in BagToSet(invoice_items) : r.invoice_id \in DOMAIN invoices
  /\ \A r \in BagToSet(sales_records) :
       r.invoice_id = NULL \/ r.invoice_id \in DOMAIN invoices

ItemsOf(i) ==
  Where(invoice_items, {r \in DOMAIN invoice_items : r.invoice_id = i})
SalesOf(i) ==
  Where(sales_records, {r \in DOMAIN sales_records : r.invoice_id = i})

\* ------------------------------------------------------------- triggers
\* generate_invoice_number, BEFORE INSERT ON invoices
generate_invoice_number ==
  LET nums == {invoices[i].invoice_number : i \in DOMAIN invoices}
      max == IF nums = {} THEN 0
             ELSE CHOOSE n \in nums : \A m \in nums : m <= n
  IN COALESCE(max, 0) + 1

\* mutant: the fallback of total_profit is unit_price, not total_price
SalesRow_FallbackUnitPrice(id, new_row, ii) ==
  LET cost == IF ii.product_id \in DOMAIN products
              THEN products[ii.product_id].cost_inr ELSE NULL
  IN [invoice_id |-> id,
      invoice_number |-> new_row.invoice_number,
      product_id |-> ii.product_id,
      product_name |-> ii.product_name,
      size_name |-> ii.size_name,
      color_name |-> ii.color_name,
      quantity |-> ii.quantity,
      unit_price |-> ii.unit_price,
      total_price |-> ii.total_price,
      cost_per_unit |-> COALESCE(cost, 0),
      profit_per_unit |-> COALESCE(Minus(ii.unit_price, cost), ii.unit_price),
      total_profit |->
        COALESCE(Times(Minus(ii.unit_price, cost), ii.quantity), ii.unit_price),
      sale_date |-> new_row.created_at]

\* mutant: total_profit is total_price, whatever the cost
SalesRow_ProfitIsPrice(id, new_row, ii) ==
  LET cost == IF ii.product_id \in DOMAIN products
              THEN products[ii.product_id].cost_inr ELSE NULL
  IN [invoice_id |-> id,
      invoice_number |-> new_row.invoice_number,
      product_id |-> ii.product_id,
      product_name |-> ii.product_name,
      size_name |-> ii.size_name,
      color_name |-> ii.color_name,
      quantity |-> ii.quantity,
      unit_price |-> ii.unit_price,
      total_price |-> ii.total_price,
      cost_per_unit |-> COALESCE(cost, 0),
      profit_per_unit |-> COALESCE(Minus(ii.unit_price, cost), ii.unit_price),
      total_profit |-> ii.total_price,
      sale_date |-> new_row.created_at]

\* the row that the INSERT ... SELECT of both trigger functions builds from
\* the invoice row NEW and one invoice_items row ii LEFT JOINed to products
SalesRow(id, new_row, ii) ==
  LET cost == IF ii.product_id \in DOMAIN products
              THEN products[ii.product_id].cost_inr ELSE NULL
  IN [invoice_id |-> id,
      invoice_number |-> new_row.invoice_number,
      product_id |-> ii.product_id,
      product_name |-> ii.product_name,
      size_name |-> ii.size_name,
      color_name |-> ii.color_name,
      quantity |-> ii.quantity,
      unit_price |-> ii.unit_price,
      total_price |-> ii.total_price,
      cost_per_unit |-> COALESCE(cost, 0),
      profit_per_unit |-> COALESCE(Minus(ii.unit_price, cost), ii.unit_price),
      total_profit |->
        COALESCE(Times(Minus(ii.unit_price, cost), ii.quantity), ii.total_price),
      sale_date |-> new_row.created_at]

\* mutant: the SELECT without its WHERE clause
EmitSales_AllItems(id, new_row) ==
  Select(invoice_items,
         [ii \in DOMAIN invoice_items |-> SalesRow(id, new_row, ii)])

\* INSERT INTO sales_records SELECT ... FROM invoice_items ii
\* LEFT JOIN products p ... WHERE ii.invoice_id = NEW.id
EmitSales(id, new_row) ==
  Select(ItemsOf(id),
         [ii \in DOMAIN ItemsOf(id) |-> SalesRow(id, new_row, ii)])

\* create_sales_records_on_invoice: sales_records after the function ran
create_sales_records_on_invoice(id, new_row) ==
  IF new_row.payment_status = "done"
  THEN sales_records (+) EmitSales(id, new_row)
  ELSE sales_records

\* mutant: the DELETE without its WHERE clause
manage_sales_records_delete_all(id, old_row, new_row) ==
  LET inserted ==
        IF old_row.payment_status = "pending" /\ new_row.payment_status = "done"
        THEN sales_records (+) EmitSales(id, new_row)
        ELSE sales_records
  IN IF old_row.payment_status = "done" /\ new_row.payment_status = "pending"
     THEN EmptyBag
     ELSE inserted

\* manage_sales_records_on_invoice_update: sales_records after it ran
manage_sales_records_on_invoice_update(id, old_row, new_row) ==
  LET inserted ==
        IF old_row.payment_status = "pending" /\ new_row.payment_status = "done"
        THEN sales_records (+) EmitSales(id, new_row)
        ELSE sales_records
  IN IF old_row.payment_status = "done" /\ new_row.payment_status = "pending"
     THEN Where(inserted, {r \in DOMAIN inserted : r.invoice_id # id})
     ELSE inserted

\* mutant: the trigger without its WHEN clause, running the function of the
\* insert trigger
manage_sales_on_every_update(id, old_row, new_row) ==
  create_sales_records_on_invoice(id, new_row)

\* CREATE TRIGGER manage_sales_on_invoice_update AFTER UPDATE ... WHEN
\* (OLD.payment_status IS DISTINCT FROM NEW.payment_status)
manage_sales_on_invoice_update(id, old_row, new_row) ==
  IF old_row.payment_status # new_row.payment_status
  THEN manage_sales_records_on_invoice_update(id, old_row, new_row)
  ELSE sales_records

\* CREATE TRIGGER create_sales_on_invoice_insert AFTER INSERT, and then
\* DROP TRIGGER IF EXISTS create_sales_on_invoice_insert ON invoices: once
\* the migrations have run, an insert into invoices fires no such trigger
create_sales_on_invoice_insert(id, new_row) == sales_records

\* --------------------------------------------------------------- state
\* last: the statement that led to the current state when it was one on the
\* invoices table or an emission of sales records, "other" after any other
\* statement; an UPDATE of invoices is recorded with the change of
\* payment_status that its trigger saw
StatusChange(old, new) ==
  IF old = new THEN "unchanged"
  ELSE IF old = "pending" /\ new = "done" THEN "pending->done"
  ELSE IF old = "done" /\ new = "pending" THEN "done->pending"
  ELSE "null"

\* nothing in flight, nothing fetched, the dialog closed
AppIdle ==
  /\ tx = [phase |-> "none"]
  /\ inserts = << >>
  /\ creation = [step |-> "none"]
  /\ numbers = << >>
  /\ rows = << >>
  /\ view = [kind |-> "none"]
  /\ dialog = [open |-> FALSE]

\* the empty tables
DbEmpty ==
  /\ products = [p \in {} |-> 0]
  /\ invoices = [i \in {} |-> 0]
  /\ invoice_items = EmptyBag
  /\ sales_records = EmptyBag
  /\ last = "other"

Init == DbEmpty /\ AppIdle

\* INSERT INTO invoices without an explicit number; the new row gets a
\* fresh id (gen_random_uuid), here the first free one, and created_at is
\* now(), a clock reading not before that of any stored invoice
InsertInvoice(status, now) ==
  /\ DOMAIN invoices # InvoiceIds
  /\ payment_status_check(status)
  /\ generate_invoice_number <= MaxInvoiceNo
  /\ \A i \in DOMAIN invoices : invoices[i].created_at <= now
  /\ LET id == CHOOSE i \in InvoiceIds \ DOMAIN invoices :
                 \A j \in InvoiceIds \ DOMAIN invoices : i <= j
         new_row == [invoice_number |-> generate_invoice_number,
                     payment_status |-> status,
                     created_at |-> now]
     IN /\ invoices' = [i \in DOMAIN invoices \cup {id} |->
                          IF i = id THEN new_row ELSE invoices[i]]
        /\ sales_records' = create_sales_on_invoice_insert(id, new_row)
        /\ last' = "InsertInvoice"
  /\ UNCHANGED <<products, invoice_items>>

\* UPDATE invoices SET ... WHERE id = id: status is the payment_status of the
\* updated row, the old one when the update only edits other columns
UpdateInvoice(id, status) ==
  /\ id \in DOMAIN invoices
  /\ payment_status_check(status)
  /\ LET old_row == invoices[id]
         new_row == [old_row EXCEPT !.payment_status = status]
     IN /\ Count(manage_sales_on_invoice_update(id, old_row, new_row)) <= MaxSales
        /\ invoices' = [invoices EXCEPT ![id] = new_row]
        /\ sales_records' = manage_sales_on_invoice_update(id, old_row, new_row)
        /\ last' = StatusChange(old_row.payment_status, status)
  /\ UNCHANGED <<products, invoice_items>>

\* invoice_items.invoice_id ... ON DELETE CASCADE
invoice_items_on_invoice_delete(id) ==
  Where(invoice_items, {r \in DOMAIN invoice_items : r.invoice_id # id})

\* mutant: ON DELETE CASCADE
sales_records_cascade(id) ==
  Where(sales_records, {r \in DOMAIN sales_records : r.invoice_id # id})

\* sales_records.invoice_id ... ON DELETE SET NULL
sales_records_on_invoice_delete(id) ==
  Select(sales_records,
         [r \in DOMAIN sales_records |->
            IF r.invoice_id = id THEN [r EXCEPT !.invoice_id = NULL] ELSE r])

\* DELETE FROM invoices WHERE id = id
DeleteInvoice(id) ==
  /\ id \in DOMAIN invoices
  /\ invoices' = [i \in DOMAIN invoices \ {id} |-> invoices[i]]
  /\ invoice_items' = invoice_items_on_invoice_delete(id)
  /\ sales_records' = sales_records_on_invoice_delete(id)
  /\ last' = "DeleteInvoice"
  /\ UNCHANGED <<products>>

\* INSERT INTO invoice_items; both foreign keys must resolve
InsertItem(id, p, a) ==
  /\ id \in DOMAIN invoices
  /\ p.product_id = NULL \/ p.product_id \in DOMAIN products
  /\ Count(invoice_items) < MaxItems
  /\ invoice_items' = invoice_items (+) SetToBag({ItemRow(id, p, a)})
  /\ last' = "other"
  /\ UNCHANGED <<products, invoices, sales_records>>

\* UPDATE invoice_items SET quantity, unit_price, total_price of one row
UpdateItem(r, a) ==
  /\ BagIn(r, invoice_items)
  /\ LET r2 == [r EXCEPT !.quantity = a.quantity,
                         !.unit_price = a.unit_price,
                         !.total_price = a.total_price]
     IN /\ r2 # r
        /\ invoice_items' = (invoice_items (-) SetToBag({r})) (+) SetToBag({r2})
  /\ last' = "other"
  /\ UNCHANGED <<products, invoices, sales_records>>

\* DELETE FROM invoice_items, one row
DeleteItem(r) ==
  /\ BagIn(r, invoice_items)
  /\ invoice_items' = invoice_items (-) SetToBag({r})
  /\ last' = "other"
  /\ UNCHANGED <<products, invoices, sales_records>>

\* INSERT INTO products
InsertProduct(p, cost) ==
  /\ p \notin DOMAIN products
  /\ products' = [q \in DOMAIN products \cup {p} |->
                    IF q = p THEN [cost_inr |-> cost] ELSE products[q]]
  /\ last' = "other"
  /\ UNCHANGED <<invoices, invoice_items, sales_records>>

\* UPDATE products SET cost_inr
UpdateProduct(p, cost) ==
  /\ p \in DOMAIN products
  /\ products[p].cost_inr # cost
  /\ products' = [products EXCEPT ![p].cost_inr = cost]
  /\ last' = "other"
  /\ UNCHANGED <<invoices, invoice_items, sales_records>>

\* mutant: ON DELETE CASCADE
product_id_cascade(p, table) ==
  Where(table, {r \in DOMAIN table : r.product_id # p})

\* product_id ... REFERENCES products(id) ON DELETE SET NULL, of
\* invoice_items and of sales_records
product_id_on_product_delete(p, table) ==
  Select(table,
         [r \in DOMAIN table |->
            IF r.product_id = p THEN [r EXCEPT !.product_id = NULL] ELSE r])

\* DELETE FROM products WHERE id = p
DeleteProduct(p) ==
  /\ p \in DOMAIN products
  /\ products' = [q \in DOMAIN products \ {p} |-> products[q]]
  /\ invoice_items' = product_id_on_product_delete(p, invoice_items)
  /\ sales_records' = product_id_on_product_delete(p, sales_records)
  /\ last' = "other"
  /\ UNCHANGED <<invoices>>

\* "Sales records will be created manually from the application after items
\* are inserted": the application's emission for a done invoice, guarded by
\* the invoice_id existence check
CreateSalesRecordsManually(id) ==
  /\ id \in DOMAIN invoices
  /\ invoices[id].payment_status = "done"
  /\ ItemsOf(id) # EmptyBag
  /\ SalesOf(id) = EmptyBag
  /\ Count(create_sales_records_on_invoice(id, invoices[id])) <= MaxSales
  /\ sales_records' = create_sales_records_on_invoice(id, invoices[id])
  /\ last' = "CreateSalesRecordsManually"
  /\ UNCHANGED <<products, invoices, invoice_items>>

\* the statements on invoice_items
ItemStatements ==
  \/ \E id \in InvoiceIds, p \in ItemProducts, a \in ItemAmounts :
       InsertItem(id, p, a) /\ UNCHANGED app
  \/ \E r \in BagToSet(invoice_items), a \in ItemAmounts :
       UpdateItem(r, a) /\ UNCHANGED app
  \/ \E r \in BagToSet(invoice_items) : DeleteItem(r) /\ UNCHANGED app

InvoiceStatements ==
  \/ \E id \in InvoiceIds, s \in Statuses :
       UpdateInvoice(id, s) /\ UNCHANGED app
  \/ \E id \in InvoiceIds : DeleteInvoice(id) /\ UNCHANGED app
  \/ ItemStatements
  \/ \E id \in InvoiceIds :
       CreateSalesRecordsManually(id) /\ UNCHANGED app

\* the catalog is filled and then left alone while invoices are written
Next ==
  \/ \E s \in Statuses, t \in Timestamps :
       InsertInvoice(s, t) /\ UNCHANGED app
  \/ InvoiceStatements
  \/ \E p \in ProductIds, c \in Costs :
       InsertProduct(p, c) /\ UNCHANGED app

Spec == Init /\ [][Next]_vars

\* products are also updated and deleted; one invoice is stored at a time
NextCatalog ==
  \/ \E s \in Statuses, t \in Timestamps :
       DOMAIN invoices = {} /\ InsertInvoice(s, t) /\ UNCHANGED app
  \/ InvoiceStatements
  \/ \E p \in ProductIds, c \in Costs :
       InsertProduct(p, c) /\ UNCHANGED app
  \/ \E p \in ProductIds, c \in Costs :
       UpdateProduct(p, c) /\ UNCHANGED app
  \/ \E p \in ProductIds : DeleteProduct(p) /\ UNCHANGED app

SpecCatalog == Init /\ [][NextCatalog]_vars

\* ------------------------------------------- an UPDATE of invoices, in steps
\* The UPDATE and the AFTER UPDATE ... FOR EACH ROW trigger it fires run in
\* one transaction: the new row version and the trigger's writes are private
\* to it until the commit publishes them together, and an error in the
\* statement, in the trigger function (it has no EXCEPTION block) or on the
\* connection discards them together. tx holds the private versions.
NoTx == [phase |-> "none"]

\* mutant: the row update is published on its own, before the trigger runs
TxUpdateRow_Autocommit(id, status) ==
  /\ tx = NoTx
  /\ id \in DOMAIN invoices
  /\ payment_status_check(status)
  /\ tx' = [phase |-> "row", id |-> id, old_row |-> invoices[id],
            new_row |-> [invoices[id] EXCEPT !.payment_status = status],
            sales |-> sales_records]
  /\ invoices' = [invoices EXCEPT ![id].payment_status = status]
  /\ last' = StatusChange(invoices[id].payment_status, status)
  /\ UNCHANGED <<products, invoice_items, sales_records>>

\* UPDATE invoices ... WHERE id = id: the new row version is written
TxUpdateRow(id, status) ==
  /\ tx = NoTx
  /\ id \in DOMAIN invoices
  /\ payment_status_check(status)
  /\ tx' = [phase |-> "row", id |-> id, old_row |-> invoices[id],
            new_row |-> [invoices[id] EXCEPT !.payment_status = status],
            sales |-> sales_records]
  /\ UNCHANGED db

\* the row trigger manage_sales_on_invoice_update runs inside the statement
TxFireTrigger ==
  /\ tx.phase = "row"
  /\ Count(manage_sales_on_invoice_update(tx.id, tx.old_row, tx.new_row))
       <= MaxSales
  /\ tx' = [tx EXCEPT
              !.phase = "trigger",
              !.sales = manage_sales_on_invoice_update(tx.id, tx.old_row,
                                                       tx.new_row)]
  /\ UNCHANGED db

\* the statement's transaction commits: row and records become visible
TxCommit ==
  /\ tx.phase = "trigger"
  /\ invoices' = [invoices EXCEPT ![tx.id] = tx.new_row]
  /\ sales_records' = tx.sales
  /\ last' = StatusChange(tx.old_row.payment_status, tx.new_row.payment_status)
  /\ tx' = NoTx
  /\ UNCHANGED <<products, invoice_items>>

\* the statement fails before its commit: nothing of it becomes visible
TxAbort ==
  /\ tx.phase \in {"row", "trigger"}
  /\ tx' = NoTx
  /\ last' = "UpdateInvoice failed"
  /\ UNCHANGED <<products, invoices, invoice_items, sales_records>>

app_but_tx == <<inserts, creation, numbers, rows, view, dialog>>

\* one invoice, one UPDATE of it in flight at a time; other sessions write
\* items meanwhile, and the invoice row is locked against its deletion
NextTx ==
  \/ \E s \in Statuses, t \in Timestamps :
       tx = NoTx /\ DOMAIN invoices = {} /\ InsertInvoice(s, t)
         /\ UNCHANGED app
  \/ \E p \in ProductIds, c \in Costs : InsertProduct(p, c) /\ UNCHANGED app
  \/ ItemStatements
  \/ \E id \in InvoiceIds :
       tx = NoTx /\ CreateSalesRecordsManually(id) /\ UNCHANGED app
  \/ \E id \in InvoiceIds : tx = NoTx /\ DeleteInvoice(id) /\ UNCHANGED app
  \/ \E id \in InvoiceIds, s \in Statuses :
       TxUpdateRow(id, s) /\ UNCHANGED app_but_tx
  \/ TxFireTrigger /\ UNCHANGED app_but_tx
  \/ TxCommit /\ UNCHANGED app_but_tx
  \/ TxAbort /\ UNCHANGED app_but_tx

SpecTx == Init /\ [][NextTx]_vars

\* ------------------------------------- the creation of a 'done' invoice
\* "Sales records will be created manually from the application after items
\* are inserted": the application writes the invoice row, then its items,
\* then the sales records, each a statement of its own that is committed when
\* it returns. creation holds how far the request has come.
NextInvoiceId ==
  CHOOSE i \in InvoiceIds \ DOMAIN invoices :
    \A j \in InvoiceIds \ DOMAIN invoices : i <= j

app_but_creation == <<tx, inserts, numbers, rows, view, dialog>>

\* the operator submits the invoice form
StartCreation ==
  /\ creation.step \in {"none", "created", "failed"}
  /\ creation' = [step |-> "invoice"]
  /\ UNCHANGED db

\* INSERT INTO invoices ... payment_status 'done'
CreateInvoiceRow(now) ==
  /\ creation.step = "invoice"
  /\ InsertInvoice("done", now)
  /\ creation' = [step |-> "items", id |-> NextInvoiceId]

\* INSERT INTO invoice_items of the new invoice
CreateItemRow(p, a) ==
  /\ creation.step = "items"
  /\ InsertItem(creation.id, p, a)
  /\ UNCHANGED creation

\* the emission for the new invoice, once it has items
CreateSalesRows ==
  /\ creation.step = "items"
  /\ CreateSalesRecordsManually(creation.id)
  /\ creation' = [step |-> "created", id |-> creation.id]

\* a statement of the request fails (database unreachable, constraint
\* violation): the request ends and the caller is told; the statements that
\* returned before are committed
FailCreation ==
  /\ creation.step \in {"invoice", "items"}
  /\ creation' = [step |-> "failed",
                  id |-> IF creation.step = "items" THEN creation.id ELSE NULL]
  /\ UNCHANGED db

NextCreate ==
  \/ \E p \in ProductIds, c \in Costs : InsertProduct(p, c) /\ UNCHANGED app
  \/ StartCreation /\ UNCHANGED app_but_creation
  \/ \E t \in Timestamps : CreateInvoiceRow(t) /\ UNCHANGED app_but_creation
  \/ \E p \in ItemProducts, a \in ItemAmounts :
       CreateItemRow(p, a) /\ UNCHANGED app_but_creation
  \/ CreateSalesRows /\ UNCHANGED app_but_creation
  \/ FailCreation /\ UNCHANGED app_but_creation
  \/ \E id \in InvoiceIds :
       creation.step \notin {"invoice", "items"} /\ DeleteInvoice(id)
         /\ UNCHANGED app

SpecCreate == Init /\ [][NextCreate]_vars

\* ------------------------------------------- invoice numbers, as text
\* A text is a sequence of characters. numbers is the invoice_number column
\* of invoices in the order of insertion.
Digit == <<"0", "1", "2", "3", "4", "5", "6", "7", "8", "9">>
IsDigit(c) == \E d \in 1..10 : Digit[d] = c
DigitValue(c) == (CHOOSE d \in 1..10 : Digit[d] = c) - 1
INV == <<"I", "N", "V", "-">>

\* the pad width of LPAD(next_number::TEXT, 6, '0')
PadWidth == 6
\* the largest value of the sql type INTEGER
IntegerMax == 2147483647

\* next_number::TEXT
RECURSIVE ToText(_)
ToText(n) ==
  IF n < 10 THEN <<Digit[n + 1]>>
  ELSE ToText(n \div 10) \o <<Digit[(n % 10) + 1]>>

\* the number that a text of digits writes
RECURSIVE DigitsValue(_)
DigitsValue(t) ==
  IF t = << >> THEN 0
  ELSE 10 * DigitsValue(SubSeq(t, 1, Len(t) - 1)) + DigitValue(t[Len(t)])

\* sql LPAD(t, n, fill): fills on the left up to n characters, and cuts a
\* longer text to its first n characters
RECURSIVE LPAD(_, _, _)
LPAD(t, n, fill) ==
  IF Len(t) >= n THEN SubSeq(t, 1, n) ELSE LPAD(<<fill>> \o t, n, fill)

\* the regular expression 'INV-[0-9]+' matches t at position i
MatchesAt(t, i) ==
  /\ i + 4 <= Len(t)
  /\ SubSeq(t, i, i + 3) = INV
  /\ IsDigit(t[i + 4])

\* invoice_number ~ 'INV-[0-9]+': a match anywhere in the text
Matches(t) == \E i \in 1..Len(t) : MatchesAt(t, i)

\* SUBSTRING(t FROM 'INV-([0-9]+)'): the digits of the leftmost match, as
\* many as follow
SuffixDigits(t) ==
  LET i == CHOOSE k \in 1..Len(t) :
             MatchesAt(t, k) /\ \A j \in 1..(k - 1) : ~MatchesAt(t, j)
      e == CHOOSE k \in (i + 4)..Len(t) :
             /\ \A j \in (i + 4)..k : IsDigit(t[j])
             /\ k = Len(t) \/ ~IsDigit(t[k + 1])
  IN SubSeq(t, i + 4, e)

\* the texts stored in the column
Stored_numbers == {numbers[k] : k \in 1..Len(numbers)}

\* the suffixes that the SELECT of generate_invoice_number reads
Suffixes ==
  {DigitsValue(SuffixDigits(t)) : t \in {u \in Stored_numbers : Matches(u)}}

\* CAST(... AS INTEGER) or + 1 raises "integer out of range"
NumberOutOfRange ==
  \E v \in Suffixes : v >= IntegerMax

\* generate_invoice_number over the text column: COALESCE(MAX(...), 0) + 1,
\* then 'INV-' || LPAD(next_number::TEXT, 6, '0')
generate_invoice_number_text ==
  LET max == IF Suffixes = {} THEN NULL
             ELSE CHOOSE n \in Suffixes : \A m \in Suffixes : m <= n
      next_number == COALESCE(max, 0) + 1
  IN INV \o LPAD(ToText(next_number), PadWidth, "0")

\* a NULL invoice_number: a text whose one element is no character
NULL_NUMBER == <<NULL_TEXT>>

\* the numbers an operator may type; NULL and the empty text ask for a
\* generated number
ExplicitNumbers ==
  {<<"A", "-", "1">>,
   INV \o <<"0", "0", "0", "0", "0", "7">>,
   INV \o <<"9", "9", "9", "9", "9", "9">>,
   INV \o <<"2", "1", "4", "7", "4", "8", "3", "6", "4", "7">>}

app_but_numbers == <<tx, inserts, creation, rows, view, dialog>>

\* INSERT INTO invoices (invoice_number, ...) VALUES (given, ...): the BEFORE
\* INSERT trigger set_invoice_number, then the UNIQUE constraint
InsertNumbered(given) ==
  /\ Len(numbers) < MaxNumbers
  /\ LET generated == given = NULL_NUMBER \/ given = << >>
         failed == \/ generated /\ NumberOutOfRange
                   \/ (IF generated THEN generate_invoice_number_text
                       ELSE given) \in Stored_numbers
     IN IF failed
        THEN /\ last' = "InsertInvoice failed"
             /\ UNCHANGED numbers
        ELSE /\ numbers' = Append(numbers,
                                  IF generated THEN generate_invoice_number_text
                                  ELSE given)
             /\ last' = IF generated THEN "InsertInvoice generated"
                        ELSE "InsertInvoice explicit"
  /\ UNCHANGED <<products, invoices, invoice_items, sales_records>>

NextNumbering ==
  \E given \in ExplicitNumbers \cup {NULL_NUMBER, << >>} :
    InsertNumbered(given) /\ UNCHANGED app_but_numbers

SpecNumbering == Init /\ [][NextNumbering]_vars

\* --------------------------------------------- concurrent invoice inserts
\* Each session inserts in a transaction of its own. The BEFORE INSERT trigger
\* reads the committed invoices, so two sessions may compute the same number;
\* the unique index on invoice_number decides when the row is written.
Sessions == 1..MaxSessions

Idle == [phase |-> "none"]

\* mutant: invoice_number without its UNIQUE constraint
invoice_number_not_checked(n) == TRUE

\* invoice_number TEXT NOT NULL UNIQUE: no stored invoice holds n
invoice_number_unique(n) ==
  \A i \in DOMAIN invoices : invoices[i].invoice_number # n

\* session s starts INSERT INTO invoices without a number: the trigger
\* set_invoice_number computes one from what is committed (a writer whose
\* last insert failed may insert again)
BeginInsert(s, status, now) ==
  /\ inserts[s].phase # "numbered"
  /\ payment_status_check(status)
  /\ generate_invoice_number <= MaxInvoiceNo
  /\ inserts' = [inserts EXCEPT ![s] =
                   [phase |-> "numbered",
                    row |-> [invoice_number |-> generate_invoice_number,
                             payment_status |-> status,
                             created_at |-> now]]]
  /\ UNCHANGED db

\* the row of session s reaches the unique index: it is stored and committed,
\* or the statement fails with a unique violation that the writer receives
CompleteInsert(s) ==
  /\ inserts[s].phase = "numbered"
  /\ IF invoice_number_unique(inserts[s].row.invoice_number)
     THEN /\ DOMAIN invoices # InvoiceIds
          /\ invoices' = [i \in DOMAIN invoices \cup {NextInvoiceId} |->
                            IF i = NextInvoiceId THEN inserts[s].row
                            ELSE invoices[i]]
          /\ sales_records' =
               create_sales_on_invoice_insert(NextInvoiceId, inserts[s].row)
          /\ last' = "InsertInvoice"
          /\ inserts' = [inserts EXCEPT ![s] = Idle]
     ELSE /\ inserts' = [inserts EXCEPT ![s].phase = "failed"]
          /\ last' = "InsertInvoice failed"
          /\ UNCHANGED <<invoices, sales_records>>
  /\ UNCHANGED <<products, invoice_items>>

app_but_inserts == <<tx, creation, numbers, rows, view, dialog>>

InitConcurrent ==
  /\ DbEmpty
  /\ inserts = [s \in Sessions |-> Idle]
  /\ tx = NoTx
  /\ creation = [step |-> "none"]
  /\ numbers = << >>
  /\ rows = << >>
  /\ view = [kind |-> "none"]
  /\ dialog = [open |-> FALSE]

NextConcurrent ==
  \/ \E s \in Sessions, st \in Statuses, t \in Timestamps :
       BeginInsert(s, st, t) /\ UNCHANGED app_but_inserts
  \/ \E s \in Sessions : CompleteInsert(s) /\ UNCHANGED app_but_inserts
  \/ \E id \in InvoiceIds : DeleteInvoice(id) /\ UNCHANGED app

SpecConcurrent == InitConcurrent /\ [][NextConcurrent]_vars

\* ------------------------------------------------------------- analytics
\* The three views read sales_records through one range query and aggregate
\* the answer in the browser. rows is the content of sales_records in the
\* order in which a query returns it. Money is counted in whole units.
TopN == 20
MaxGroups == 21
MaxRows == 2

\* Number(x) of a column that may be null
Number(x) == IF x = NULL THEN 0 ELSE x

RECURSIVE GCD(_, _)
GCD(a, b) == IF b = 0 THEN a ELSE GCD(b, a % b)

Abs(a) == IF a < 0 THEN 0 - a ELSE a

\* a / b of two whole numbers, as a fraction in lowest terms; den = 0 stands
\* for what the division by 0 gives (Infinity, -Infinity, NaN by the sign
\* of num)
Div(a, b) ==
  IF b = 0
  THEN [num |-> IF a > 0 THEN 1 ELSE IF a < 0 THEN 0 - 1 ELSE 0, den |-> 0]
  ELSE LET g == GCD(Abs(a), Abs(b))
           sign == IF b < 0 THEN 0 - 1 ELSE 1
       IN [num |-> sign * (a \div g), den |-> sign * (b \div g)]

\* the sum of the entries of f at the indices in S
RECURSIVE SumAt(_, _)
SumAt(f, S) ==
  IF S = {} THEN 0
  ELSE LET x == CHOOSE y \in S : TRUE IN f[x] + SumAt(f, S \ {x})

\* the values of a column in data, each once, in the order of first
\* appearance (the order of the keys of an object or Map filled in a loop)
RECURSIVE Keys(_, _)
Keys(data, field) ==
  IF data = << >> THEN << >>
  ELSE LET front == Keys(SubSeq(data, 1, Len(data) - 1), field)
           k == data[Len(data)][field]
       IN IF \E i \in 1..Len(front) : front[i] = k THEN front
          ELSE Append(front, k)

\* the indices of the records of data whose column field is k
IndicesOf(data, field, k) == {i \in 1..Len(data) : data[i][field] = k}

First(S) == CHOOSE i \in S : \A j \in S : i <= j

\* Array.prototype.sort with the comparator b[field] - a[field]: descending,
\* rows of equal value keep their order
RECURSIVE SortDesc(_, _)
SortDesc(list, field) ==
  IF list = << >> THEN << >>
  ELSE LET sorted == SortDesc(SubSeq(list, 1, Len(list) - 1), field)
           x == list[Len(list)]
           pos == Cardinality({i \in 1..Len(sorted) :
                                 sorted[i][field] >= x[field]})
       IN SubSeq(sorted, 1, pos) \o <<x>>
            \o SubSeq(sorted, pos + 1, Len(sorted))

\* mutant: the range without its bounds
Query_Exclusive(startDate, endDate) ==
  SelectSeq(rows, LAMBDA r : startDate < r.sale_date /\ r.sale_date < endDate)

\* .from("sales_records").gte("sale_date", start).lte("sale_date", end)
Query(startDate, endDate) ==
  SelectSeq(rows, LAMBDA r : startDate <= r.sale_date /\ r.sale_date <= endDate)

itemCost(data) ==
  [i \in 1..Len(data) |-> Number(data[i].cost_per_unit) * data[i].quantity]

itemRevenue(data) == [i \in 1..Len(data) |-> Number(data[i].total_price)]

itemProfit(data) == [i \in 1..Len(data) |-> Number(data[i].total_profit)]

quantity(data) == [i \in 1..Len(data) |-> data[i].quantity]

\* mutant: the overall profit as the sum of the records' total_profit
Totals_FromTotalProfit(data) ==
  LET totalRevenue == SumAt(itemRevenue(data), 1..Len(data))
      totalCost == SumAt(itemCost(data), 1..Len(data))
  IN [totalProfit |-> SumAt(itemProfit(data), 1..Len(data)),
      totalRevenue |-> totalRevenue,
      totalCost |-> totalCost]

\* getProfitData: totalRevenue, totalCost and the totalProfit it returns
Totals(data) ==
  LET totalRevenue == SumAt(itemRevenue(data), 1..Len(data))
      totalCost == SumAt(itemCost(data), 1..Len(data))
  IN [totalProfit |-> totalRevenue - totalCost,
      totalRevenue |-> totalRevenue,
      totalCost |-> totalCost]

\* mutant: the profit of a row as its revenue minus its cost
productProfits_FromSums(data) ==
  LET keys == Keys(data, "product_id")
  IN [j \in 1..Len(keys) |->
        LET of == IndicesOf(data, "product_id", keys[j])
            total_quantity == SumAt(quantity(data), of)
            total_revenue == SumAt(itemRevenue(data), of)
            total_cost == SumAt(itemCost(data), of)
        IN [product_id |-> keys[j],
            product_name |-> data[First(of)].product_name,
            total_quantity |-> total_quantity,
            total_revenue |-> total_revenue,
            total_cost |-> total_cost,
            total_profit |-> total_revenue - total_cost,
            avg_sale_price |-> Div(total_revenue, total_quantity),
            avg_cost_price |-> Div(total_cost, total_quantity)]]

\* getProfitData: the rows of productProfits, one for each product_id in
\* data, in the order in which the keys were created
productProfits(data) ==
  LET keys == Keys(data, "product_id")
  IN [j \in 1..Len(keys) |->
        LET of == IndicesOf(data, "product_id", keys[j])
            total_quantity == SumAt(quantity(data), of)
            total_revenue == SumAt(itemRevenue(data), of)
            total_cost == SumAt(itemCost(data), of)
        IN [product_id |-> keys[j],
            product_name |-> data[First(of)].product_name,
            total_quantity |-> total_quantity,
            total_revenue |-> total_revenue,
            total_cost |-> total_cost,
            total_profit |-> SumAt(itemProfit(data), of),
            avg_sale_price |-> Div(total_revenue, total_quantity),
            avg_cost_price |-> Div(total_cost, total_quantity)]]

getProfitData(startDate, endDate) ==
  LET data == Query(startDate, endDate)
      totals == Totals(data)
  IN [totalProfit |-> totals.totalProfit,
      totalRevenue |-> totals.totalRevenue,
      totalCost |-> totals.totalCost,
      products |-> SortDesc(productProfits(data), "total_profit")]

\* the rows of productStats, one for each product_id in data
productStats(data) ==
  LET keys == Keys(data, "product_id")
  IN [j \in 1..Len(keys) |->
        LET of == IndicesOf(data, "product_id", keys[j])
        IN [product_id |-> keys[j],
            product_name |-> data[First(of)].product_name,
            total_quantity |-> SumAt(quantity(data), of),
            total_revenue |-> SumAt(itemRevenue(data), of)]]

\* Array.prototype.slice(0, n)
slice(list, n) == SubSeq(list, 1, IF Len(list) < n THEN Len(list) ELSE n)

getTrendingProducts(startDate, endDate) ==
  slice(productStats(Query(startDate, endDate)), TopN)

SortKeys == {"quantity", "revenue"}

\* renderTable: sortedProducts, the rows of the table
sortedProducts(list, sortBy) ==
  SortDesc(list, IF sortBy = "quantity" THEN "total_quantity"
                 ELSE "total_revenue")

\* ProductSales queryFn: one row for each product_name, by revenue
queryFn(start, end) ==
  LET records == Query(start, end)
      keys == Keys(records, "product_name")
      productMap ==
        [j \in 1..Len(keys) |->
           LET of == IndicesOf(records, "product_name", keys[j])
           IN [name |-> keys[j],
               quantity |-> SumAt(quantity(records), of),
               revenue |-> SumAt(itemRevenue(records), of)]]
  IN IF Len(records) = 0 THEN << >> ELSE SortDesc(productMap, "revenue")

\* the rows of sales_records that the views are run on
ProductNameList ==
  <<"P01", "P02", "P03", "P04", "P05", "P06", "P07", "P08", "P09", "P10",
    "P11", "P12", "P13", "P14", "P15", "P16", "P17", "P18", "P19", "P20",
    "P21">>

SaleDates == 1..3

\* a product as a record names it: id and name; the id is null once the
\* product is deleted
SoldProducts ==
  {<<1, "P01">>, <<2, "P02">>, <<NULL, "P01">>, <<NULL, "P03">>}

\* quantity, total_price, cost_per_unit, total_profit; quantity is INTEGER
\* NOT NULL without a CHECK, so a record may have quantity 0
SoldFigures ==
  {<<2, 200, 60, 80>>, <<1, 100, 60, 40>>, <<2, 5, 2, 2>>,
   <<1, 3, NULL, NULL>>, <<0, 0, 2, 0>>}

SalesRecord(p, f, d) ==
  [product_id |-> p[1], product_name |-> p[2],
   quantity |-> f[1], total_price |-> f[2],
   cost_per_unit |-> f[3], total_profit |-> f[4], sale_date |-> d]

SalesRecords ==
  {SalesRecord(p, f, d) : p \in SoldProducts, f \in SoldFigures,
                          d \in SaleDates}

\* a few records of any kind
ShortLists == UNION {[1..n -> SalesRecords] : n \in 0..MaxRows}

\* n products with one record each on day 2; product h sold most
LongList(n, h) ==
  [i \in 1..n |->
     SalesRecord(<<i, ProductNameList[i]>>,
                 IF i = h THEN <<3, 9, 1, 6>> ELSE <<1, 1, 1, 0>>, 2)]

LongLists == {LongList(n, h) : n \in TopN..MaxGroups, h \in {1, MaxGroups}}

\* two products of which one sold more units and the other earned more
TwoProducts ==
  <<SalesRecord(<<1, "P01">>, <<10, 1000, 60, 400>>, 2),
    SalesRecord(<<2, "P02">>, <<15, 800, 40, 200>>, 2)>>

\* the date ranges of the views: start of a period to its end
Ranges == {r \in SaleDates \X SaleDates : r[1] <= r[2]}

app_but_view == <<tx, inserts, creation, numbers, dialog>>

InitAnalytics ==
  /\ DbEmpty
  /\ rows \in ShortLists \cup LongLists \cup {TwoProducts}
  /\ view = [kind |-> "none"]
  /\ tx = NoTx
  /\ inserts = << >>
  /\ creation = [step |-> "none"]
  /\ numbers = << >>
  /\ dialog = [open |-> FALSE]

\* the profits page runs getProfitData on a period
ShowProfits(r) ==
  /\ view' = [kind |-> "profits", startDate |-> r[1], endDate |-> r[2],
              data |-> getProfitData(r[1], r[2])]
  /\ UNCHANGED <<db, rows, app_but_view>>

\* the trending page runs getTrendingProducts on a period and renderTable
\* on the answer
ShowTrending(r, sortBy) ==
  /\ view' = [kind |-> "trending", startDate |-> r[1], endDate |-> r[2],
              sortBy |-> sortBy,
              products |-> getTrendingProducts(r[1], r[2]),
              sortedProducts |->
                sortedProducts(getTrendingProducts(r[1], r[2]), sortBy)]
  /\ UNCHANGED <<db, rows, app_but_view>>

\* mutant: the table is not sorted again when the sort key changes
setSortBy_NoSort(sortBy) ==
  /\ view.kind = "trending"
  /\ view.sortBy # sortBy
  /\ view' = [view EXCEPT !.sortBy = sortBy]
  /\ UNCHANGED <<db, rows, app_but_view>>

\* the user picks the other sort key: renderTable runs again on the products
\* that the query returned
setSortBy(sortBy) ==
  /\ view.kind = "trending"
  /\ view.sortBy # sortBy
  /\ view' = [view EXCEPT !.sortBy = sortBy,
                          !.sortedProducts =
                            sortedProducts(view.products, sortBy)]
  /\ UNCHANGED <<db, rows, app_but_view>>

\* the product sales card runs its queryFn on a day
ShowProductSales(r) ==
  /\ view' = [kind |-> "product-sales", startDate |-> r[1],
              endDate |-> r[2], productSales |-> queryFn(r[1], r[2])]
  /\ UNCHANGED <<db, rows, app_but_view>>

NextAnalytics ==
  \/ \E r \in Ranges : ShowProfits(r)
  \/ \E r \in Ranges, k \in SortKeys : ShowTrending(r, k)
  \/ \E r \in Ranges : ShowProductSales(r)
  \/ \E k \in SortKeys : setSortBy(k)

SpecAnalytics == InitAnalytics /\ [][NextAnalytics]_vars

\* ------------------------------------------------ product selection dialog
\* ProductSelectionDialog: open is held by the parent and changed through
\* onOpenChange; searchQuery is the dialog's own state. selected lists the
\* products handed to onSelectProduct, toasts counts the warnings shown,
\* clicked is the product of the latest click and clicks counts the clicks.
MaxClicks == 3

StockLevels == {0 - 1, 0, 1, 2}

SearchQueries == {"", "sh"}

\* the products listed in the dialog
ListedProducts == [name : {"shirt", "shoe"}, quantity_in_stock : StockLevels]

app_but_dialog == <<tx, inserts, creation, numbers, rows, view>>

InitDialog ==
  /\ DbEmpty
  /\ dialog = [open |-> FALSE, searchQuery |-> "", selected |-> << >>,
               toasts |-> 0, clicks |-> 0,
               clicked |-> [name |-> "", quantity_in_stock |-> 0]]
  /\ tx = NoTx
  /\ inserts = << >>
  /\ creation = [step |-> "none"]
  /\ numbers = << >>
  /\ rows = << >>
  /\ view = [kind |-> "none"]

\* the parent opens the dialog, or the user dismisses it
onOpenChange(open) ==
  /\ dialog.open # open
  /\ dialog' = [dialog EXCEPT !.open = open]
  /\ UNCHANGED <<db, app_but_dialog>>

\* the user types in the search box
setSearchQuery(q) ==
  /\ dialog.open
  /\ dialog.searchQuery # q
  /\ dialog' = [dialog EXCEPT !.searchQuery = q]
  /\ UNCHANGED <<db, app_but_dialog>>

\* mutant: only a negative stock is refused
handleSelect_Negative(product) ==
  /\ dialog.open
  /\ dialog.clicks < MaxClicks
  /\ IF product.quantity_in_stock < 0
     THEN dialog' = [dialog EXCEPT !.toasts = @ + 1,
                                   !.clicks = @ + 1,
                                   !.clicked = product]
     ELSE dialog' = [dialog EXCEPT !.selected = Append(@, product),
                                   !.open = FALSE,
                                   !.searchQuery = "",
                                   !.clicks = @ + 1,
                                   !.clicked = product]
  /\ UNCHANGED <<db, app_but_dialog>>

\* the user clicks a product of the list
handleSelect(product) ==
  /\ dialog.open
  /\ dialog.clicks < MaxClicks
  /\ IF product.quantity_in_stock <= 0
     THEN dialog' = [dialog EXCEPT !.toasts = @ + 1,
                                   !.clicks = @ + 1,
                                   !.clicked = product]
     ELSE dialog' = [dialog EXCEPT !.selected = Append(@, product),
                                   !.open = FALSE,
                                   !.searchQuery = "",
                                   !.clicks = @ + 1,
                                   !.clicked = product]
  /\ UNCHANGED <<db, app_but_dialog>>

NextDialog ==
  \/ \E open \in BOOLEAN : onOpenChange(open)
  \/ \E q \in SearchQueries : setSearchQuery(q)
  \/ \E product \in ListedProducts : handleSelect(product)

SpecDialog == InitDialog /\ [][NextDialog]_vars

\* ------------------------------------- serialized creations and deletions
\* Invoices are created without a number and deleted, one statement at a
\* time; numbers lists the numbers that the trigger generated, in order.
CreateInvoice(status, now) ==
  /\ Len(numbers) < MaxNumbers
  /\ InsertInvoice(status, now)
  /\ numbers' = Append(numbers, generate_invoice_number)
  /\ UNCHANGED app_but_numbers

NextSerial ==
  \/ \E st \in Statuses, t \in Timestamps : CreateInvoice(st, t)
  \/ \E id \in InvoiceIds : DeleteInvoice(id) /\ UNCHANGED app

SpecSerial == Init /\ [][NextSerial]_vars

\* ================================================================ claims
\* the columns that a sales record copies from its invoice item
ItemView(r) ==
  [product_id |-> r.product_id, product_name |-> r.product_name,
   size_name |-> r.size_name, color_name |-> r.color_name,
   quantity |-> r.quantity, unit_price |-> r.unit_price,
   total_price |-> r.total_price]

\* table B reduced to those columns
ItemViews(B) == Select(B, [r \in DOMAIN B |-> ItemView(r)])

Stored(i) == i \in DOMAIN invoices /\ i \in DOMAIN invoices'
Deleted(i) == i \in DOMAIN invoices /\ i \notin DOMAIN invoices'
OtherSales(i) ==
  Where(sales_records, {r \in DOMAIN sales_records : r.invoice_id # i})

\* C1: in every reachable state, each stored invoice has sales records
\* exactly when its payment_status is 'done'
C1_SalesIffDone ==
  \A i \in DOMAIN invoices :
    (SalesOf(i) # EmptyBag) <=> (invoices[i].payment_status = "done")

C3_Retraction ==
  [][\A i \in InvoiceIds :
       (/\ Stored(i)
        /\ invoices[i].payment_status = "done"
        /\ invoices'[i].payment_status = "pending")
       => /\ SalesOf(i)' = EmptyBag
          /\ OtherSales(i)' = OtherSales(i)]_vars

\* C3 witness: after a done->pending update the updated invoice (the pending
\* one) has an item and no record, and the other invoice kept its record
C3_Witness ==
  /\ last = "done->pending"
  /\ \E i \in DOMAIN invoices :
       /\ invoices[i].payment_status = "pending"
       /\ ItemsOf(i) # EmptyBag /\ SalesOf(i) = EmptyBag
       /\ \E j \in DOMAIN invoices \ {i} :
            invoices[j].payment_status = "done" /\ SalesOf(j) # EmptyBag

\* C4: after an update from 'pending' to 'done' the invoice has as many
\* sales records as it has items, also after further
\* done->pending->done cycles
C4_CountEqualsItems ==
  [][\A i \in InvoiceIds :
       (/\ Stored(i)
        /\ invoices[i].payment_status = "pending"
        /\ invoices'[i].payment_status = "done")
       => Count(SalesOf(i)') = Count(ItemsOf(i)')]_vars

\* C5: an update of an invoice that leaves payment_status as it was leaves
\* the sales_records table as it was
C5_NoOpUpdate ==
  [][last' = "unchanged" => sales_records' = sales_records]_vars

\* C5 witness: an update left the status 'done' of an invoice that has
\* records, and every stored invoice is 'done' with as many records as items
C5_Witness ==
  /\ last = "unchanged"
  /\ DOMAIN invoices # {}
  /\ \A i \in DOMAIN invoices :
       /\ invoices[i].payment_status = "done"
       /\ ItemsOf(i) # EmptyBag
       /\ Count(SalesOf(i)) = Count(ItemsOf(i))

\* C6: an emission for an invoice that already has a record for every item
\* leaves the sales records of that invoice as they were
C6_Idempotent ==
  [][\A i \in InvoiceIds :
       (/\ Stored(i)
        /\ invoices'[i].payment_status = "done"
        /\ \/ invoices[i].payment_status = "pending"
           \/ last' = "CreateSalesRecordsManually"
        /\ ItemsOf(i) # EmptyBag
        /\ ItemViews(SalesOf(i)) = ItemViews(ItemsOf(i)))
       => SalesOf(i)' = SalesOf(i)]_vars

\* the cost that the LEFT JOIN finds for an item: NULL without a product row
CostFound(ii) ==
  IF ii.product_id \in DOMAIN products
  THEN products[ii.product_id].cost_inr ELSE NULL

\* r is the record that the claim expects for item ii of invoice i
ExpectedRecord(r, i, ii) ==
  /\ ItemView(r) = ItemView(ii)
  /\ r.cost_per_unit = (IF CostFound(ii) = NULL THEN 0 ELSE CostFound(ii))
  /\ r.profit_per_unit = (IF CostFound(ii) = NULL THEN ii.unit_price
                          ELSE ii.unit_price - CostFound(ii))
  /\ r.total_profit = (IF CostFound(ii) = NULL THEN ii.total_price
                       ELSE r.profit_per_unit * ii.quantity)
  /\ r.sale_date = invoices[i].created_at

\* C7: every emitted record carries the product's cost of that moment (0
\* without a product or a cost), profit_per_unit = unit_price - cost,
\* total_profit = profit_per_unit * quantity (total_price without a cost)
\* and the invoice's created_at; every item gets its record
C7_CostAndProfit ==
  [][Count(sales_records') > Count(sales_records) =>
       \E i \in DOMAIN invoices :
         /\ sales_records (+) (SalesOf(i)' (-) SalesOf(i)) = sales_records'
         /\ Count(SalesOf(i)' (-) SalesOf(i)) = Count(ItemsOf(i))
         /\ \A r \in BagToSet(SalesOf(i)' (-) SalesOf(i)) :
              \E ii \in BagToSet(ItemsOf(i)) : ExpectedRecord(r, i, ii)
         /\ \A ii \in BagToSet(ItemsOf(i)) :
              \E r \in BagToSet(SalesOf(i)' (-) SalesOf(i)) :
                ExpectedRecord(r, i, ii)]_vars

\* C7 witness: an emission left one record for an item whose product was
\* gone (no cost found, total_profit = total_price = 5 for 2 units at 3)
\* and one for an item whose product cost 2
C7_Witness ==
  /\ last \in {"pending->done", "CreateSalesRecordsManually"}
  /\ \E r \in BagToSet(sales_records) :
       /\ r.product_id = NULL /\ r.cost_per_unit = 0
       /\ r.quantity = 2 /\ r.total_profit = 5
  /\ \E r \in BagToSet(sales_records) :
       /\ r.product_id # NULL /\ r.cost_per_unit = 2
       /\ r.profit_per_unit = 1 /\ r.total_profit = r.quantity

\* table B with the product_id, the invoice_id, of every row blanked
WithoutProductId(B) ==
  Select(B, [r \in DOMAIN B |-> [r EXCEPT !.product_id = NULL]])
WithoutInvoiceId(B) ==
  Select(B, [r \in DOMAIN B |-> [r EXCEPT !.invoice_id = NULL]])
\* the items of the invoices other than i; the rows of B that reference a
\* product other than p
ItemsNotOf(i) ==
  Where(invoice_items, {r \in DOMAIN invoice_items : r.invoice_id # i})
NotOfProduct(B, p) == Where(B, {r \in DOMAIN B : r.product_id \notin {p, NULL}})
StaysDone(i) ==
  /\ Stored(i)
  /\ invoices[i].payment_status = "done"
  /\ invoices'[i].payment_status = "done"

C10_ProductDelete ==
  [][\A p \in DOMAIN products \ DOMAIN products' :
       /\ Count(invoice_items') = Count(invoice_items)
       /\ Count(sales_records') = Count(sales_records)
       /\ \A r \in BagToSet(invoice_items') \cup BagToSet(sales_records') :
            r.product_id # p
       /\ WithoutProductId(invoice_items') = WithoutProductId(invoice_items)
       /\ WithoutProductId(sales_records') = WithoutProductId(sales_records)
       /\ NotOfProduct(invoice_items', p) = NotOfProduct(invoice_items, p)
       /\ NotOfProduct(sales_records', p) = NotOfProduct(sales_records, p)]_vars

\* C10 witness: the product is gone, and an item and a sales record that
\* referenced it are still stored, with product_id NULL
C10_Witness ==
  /\ products = << >>
  /\ \E r \in BagToSet(invoice_items) : r.product_id = NULL
  /\ \E r \in BagToSet(sales_records) :
       r.product_id = NULL /\ r.invoice_id # NULL

\* C11: a change of an invoice's payment_status becomes visible only in the
\* step that also publishes what the trigger wrote for it: the emitted
\* records on pending->done, the deletion on done->pending; and a failed
\* update leaves both the invoice and the sales records as they were
C11_Atomic ==
  [][/\ \A i \in InvoiceIds :
          (Stored(i) /\ invoices'[i].payment_status
                          # invoices[i].payment_status)
          => /\ tx.phase = "trigger" /\ tx.id = i
             /\ sales_records' = tx.sales
             /\ (/\ invoices[i].payment_status = "done"
                 /\ invoices'[i].payment_status = "pending")
                => SalesOf(i)' = EmptyBag
             /\ (/\ invoices[i].payment_status = "pending"
                 /\ invoices'[i].payment_status = "done")
                => /\ SalesOf(i) \sqsubseteq SalesOf(i)'
                   /\ OtherSales(i)' = OtherSales(i)
     /\ last' = "UpdateInvoice failed"
          => invoices' = invoices /\ sales_records' = sales_records]_vars

\* C11 witness: the trigger has emitted the records of a pending->done update
\* inside the transaction, and readers still see the pending invoice without
\* records
C11_Witness ==
  /\ tx.phase = "trigger"
  /\ tx.old_row.payment_status = "pending"
  /\ tx.new_row.payment_status = "done"
  /\ invoices[tx.id].payment_status = "pending"
  /\ SalesOf(tx.id) = EmptyBag
  /\ tx.sales # EmptyBag

\* C12: after a failed creation of a 'done' invoice nothing of it is
\* stored: no invoice row, no item, no sales record
C12_AllOrNothing ==
  (creation.step = "failed" /\ creation.id # NULL)
  => /\ creation.id \notin DOMAIN invoices
     /\ ItemsOf(creation.id) = EmptyBag
     /\ SalesOf(creation.id) = EmptyBag

\* the texts that are 'INV-' followed by digits and nothing else
IsInvNumber(t) ==
  /\ Len(t) > 4
  /\ SubSeq(t, 1, 4) = INV
  /\ \A k \in 5..Len(t) : IsDigit(t[k])

\* the greatest suffix among the stored numbers of that form, 0 without one
MaxSuffix ==
  LET S == {DigitsValue(SubSeq(t, 5, Len(t))) :
              t \in {u \in Stored_numbers : IsInvNumber(u)}}
  IN IF S = {} THEN 0 ELSE CHOOSE n \in S : \A m \in S : m <= n

\* n written in at least PadWidth digits, with zeros on the left
RECURSIVE ZeroPadded(_)
ZeroPadded(t) == IF Len(t) >= PadWidth THEN t ELSE ZeroPadded(<<"0">> \o t)

\* C13: an insert without an explicit number stores 'INV-' followed by the
\* greatest stored suffix plus 1, zero-padded to 6 digits (INV-000001 into an
\* empty store, then INV-000002, INV-000003); an insert with an explicit
\* number stores that number
C13_Numbering ==
  [][/\ last' = "InsertInvoice generated"
          => numbers' = Append(numbers,
                               INV \o ZeroPadded(ToText(MaxSuffix + 1)))
     /\ last' = "InsertInvoice explicit"
          => /\ Len(numbers') = Len(numbers) + 1
             /\ numbers'[Len(numbers')] \in ExplicitNumbers]_vars

\* C14: no two stored invoices hold the same invoice_number, and no insert
\* changes the number of a stored invoice; a writer whose number was taken
\* meanwhile is told so by a failed insert that stores nothing
C14_NoDuplicateNumber ==
  [][/\ \A i, j \in DOMAIN invoices' :
          i # j => invoices'[i].invoice_number # invoices'[j].invoice_number
     /\ \A s \in Sessions :
          (/\ inserts[s].phase = "numbered"
           /\ inserts'[s].phase # "numbered"
           /\ ~(\A i \in DOMAIN invoices :
                  invoices[i].invoice_number # inserts[s].row.invoice_number))
          => /\ inserts'[s].phase = "failed"
             /\ invoices' = invoices]_vars

\* C14 witness: two sessions computed the same number; one stored its
\* invoice, the other one's insert failed
C14_Witness ==
  \E s \in Sessions, i \in DOMAIN invoices :
    /\ inserts[s].phase = "failed"
    /\ inserts[s].row.invoice_number = invoices[i].invoice_number

\* C15: the payment_status of every stored invoice is 'pending' or 'done',
\* never null
C15_PendingOrDone ==
  \A i \in DOMAIN invoices : invoices[i].payment_status \in {"pending", "done"}

\* the records of rows whose sale_date lies in the range, bounds included
InRangeRows(startDate, endDate) ==
  {i \in 1..Len(rows) :
     startDate <= rows[i].sale_date /\ rows[i].sale_date <= endDate}

\* the sum of a column of rows over the records at the indices in S
ColumnSum(field, S) == SumAt([i \in 1..Len(rows) |-> rows[i][field]], S)

\* the products that have records in the range
ProductsInRange(startDate, endDate) ==
  {rows[i].product_id : i \in InRangeRows(startDate, endDate)}

\* the rows of the aggregate that the view shows, and their revenue
ViewRows ==
  IF view.kind = "profits" THEN view.data.products
  ELSE IF view.kind = "trending" THEN view.sortedProducts
  ELSE view.productSales

ViewRevenue ==
  LET field == IF view.kind = "product-sales" THEN "revenue"
               ELSE "total_revenue"
  IN SumAt([i \in 1..Len(ViewRows) |-> ViewRows[i][field]],
           1..Len(ViewRows))

\* C16 as stated: in every view the revenue of the rows of the aggregate
\* sums to the total_price of exactly the records in the range
C16_RevenueOfEveryView ==
  view.kind # "none" =>
    ViewRevenue
      = ColumnSum("total_price", InRangeRows(view.startDate, view.endDate))

\* C16: in the profits and the product sales view, and in the trending view
\* when at most 20 products have records in the range, the revenue of the
\* rows sums to the total_price of exactly the records in the range
C16_RevenueUpToTopN ==
  (/\ view.kind # "none"
   /\ view.kind = "trending" =>
        Cardinality(ProductsInRange(view.startDate, view.endDate)) <= TopN)
  => ViewRevenue
       = ColumnSum("total_price", InRangeRows(view.startDate, view.endDate))

\* C16 witness: a trending view over a range with a record on its last day
\* and a record after it
C16_Witness ==
  /\ view.kind = "trending"
  /\ view.startDate < view.endDate
  /\ \E i, j \in 1..Len(rows) :
       /\ rows[i].sale_date = view.endDate
       /\ rows[j].sale_date > view.endDate
  /\ ViewRevenue > 0

\* cost_per_unit * quantity of every record of rows, a null cost counting 0
LineCosts ==
  [i \in 1..Len(rows) |->
     IF rows[i].cost_per_unit = NULL THEN 0
     ELSE rows[i].cost_per_unit * rows[i].quantity]

\* the total_profit of every record of rows, null counting 0
LineProfits ==
  [i \in 1..Len(rows) |->
     IF rows[i].total_profit = NULL THEN 0 ELSE rows[i].total_profit]

\* C17: the totals of the profits view are the sum of total_price, the sum
\* of cost_per_unit * quantity and their difference, over the records in
\* the range
C17_Totals ==
  view.kind = "profits" =>
    LET S == InRangeRows(view.startDate, view.endDate)
    IN /\ view.data.totalRevenue = ColumnSum("total_price", S)
       /\ view.data.totalCost = SumAt(LineCosts, S)
       /\ view.data.totalProfit
            = ColumnSum("total_price", S) - SumAt(LineCosts, S)

\* C17 witness: a profits view over records whose total_profit does not sum
\* to revenue minus cost
C17_Witness ==
  /\ view.kind = "profits"
  /\ LET S == InRangeRows(view.startDate, view.endDate)
     IN /\ Cardinality(S) = 2
        /\ SumAt(LineProfits, S) # view.data.totalProfit
        /\ view.data.totalCost > 0

\* the records in the range that carry product_id p
RowsOfProduct(p) ==
  {i \in InRangeRows(view.startDate, view.endDate) : rows[i].product_id = p}

\* C18: in the profits view every product with a record in the range has one
\* summary row, whose quantity, revenue, cost and profit are the sums over
\* the product's records in the range and whose averages are revenue and
\* cost divided by the quantity (what a division by 0 gives when the
\* quantity is 0)
C18_ProductRows ==
  view.kind = "profits" =>
    \A p \in ProductsInRange(view.startDate, view.endDate) :
      \E j \in 1..Len(view.data.products) :
        LET row == view.data.products[j]
            S == RowsOfProduct(p)
        IN /\ row.product_id = p
           /\ \A k \in 1..Len(view.data.products) :
                view.data.products[k].product_id = p => k = j
           /\ row.total_quantity = ColumnSum("quantity", S)
           /\ row.total_revenue = ColumnSum("total_price", S)
           /\ row.total_cost = SumAt(LineCosts, S)
           /\ row.total_profit = SumAt(LineProfits, S)
           /\ IF ColumnSum("quantity", S) # 0
              THEN /\ row.avg_sale_price.den > 0
                   /\ row.avg_sale_price.num * ColumnSum("quantity", S)
                        = ColumnSum("total_price", S) * row.avg_sale_price.den
                   /\ row.avg_cost_price.den > 0
                   /\ row.avg_cost_price.num * ColumnSum("quantity", S)
                        = SumAt(LineCosts, S) * row.avg_cost_price.den
              ELSE /\ row.avg_sale_price.den = 0
                   /\ row.avg_cost_price.den = 0

\* C18 witness: two records of one product in the range, quantity 2 and 1 at
\* price 100 and cost 60, shown as quantity 3, revenue 300, cost 180,
\* profit 120, averages 100 and 60
C18_Witness ==
  /\ view.kind = "profits"
  /\ Len(rows) = 2
  /\ rows[1].quantity = 2 /\ rows[1].total_price = 200
  /\ rows[2].quantity = 1 /\ rows[2].total_price = 100
  /\ view.data.products
       = <<[product_id |-> 1, product_name |-> "P01", total_quantity |-> 3,
            total_revenue |-> 300, total_cost |-> 180, total_profit |-> 120,
            avg_sale_price |-> [num |-> 100, den |-> 1],
            avg_cost_price |-> [num |-> 60, den |-> 1]]>>

\* the value of the sort key of product p over its records in the range
KeyOf(p) ==
  ColumnSum(IF view.sortBy = "quantity" THEN "quantity" ELSE "total_price",
            RowsOfProduct(p))

\* the products of the rows that the trending table shows
Shown == {view.sortedProducts[j].product_id : j \in 1..Len(view.sortedProducts)}

\* C20: the trending view shows the 20 products with the highest value of
\* the sort key (all products when there are at most 20): no product left
\* out has a higher value than a product shown
C20_TopAfterSort ==
  view.kind = "trending" =>
    LET inRange == ProductsInRange(view.startDate, view.endDate)
    IN /\ Shown \subseteq inRange
       /\ Cardinality(Shown)
            = IF Cardinality(inRange) < TopN THEN Cardinality(inRange)
              ELSE TopN
       /\ \A p \in Shown, q \in inRange \ Shown : KeyOf(q) <= KeyOf(p)

\* C19: a click on a product whose stock is 0 or less shows a warning, does
\* not call onSelectProduct and leaves the dialog open with its search text;
\* a click on a product in stock calls onSelectProduct once with that
\* product, closes the dialog and clears the search text
C19_StockGuard ==
  [][dialog'.clicks = dialog.clicks + 1 =>
       IF dialog'.clicked.quantity_in_stock <= 0
       THEN /\ dialog'.toasts = dialog.toasts + 1
            /\ dialog'.selected = dialog.selected
            /\ dialog'.open /\ dialog.open
            /\ dialog'.searchQuery = dialog.searchQuery
       ELSE /\ dialog'.selected = Append(dialog.selected, dialog'.clicked)
            /\ dialog'.toasts = dialog.toasts
            /\ ~dialog'.open
            /\ dialog'.searchQuery = ""]_vars

\* C19 witness: after a product in stock was taken, a click on a product
\* with stock 0 was refused, the dialog still open with its search text
C19_Witness ==
  /\ dialog.open
  /\ dialog.clicks = 2
  /\ dialog.clicked.quantity_in_stock = 0
  /\ dialog.toasts = 1
  /\ Len(dialog.selected) = 1
  /\ dialog.searchQuery = "sh"

\* the rows of a list, as a bag
RowBag(list) ==
  LET S == {list[j] : j \in 1..Len(list)}
  IN [x \in S |-> Cardinality({j \in 1..Len(list) : list[j] = x})]

\* C21: the rows of the trending table are in descending order of the
\* selected key, and changing the sort key shows the same rows in the other
\* order, none added and none removed
C21_SortedSameRows ==
  [][/\ view'.kind = "trending" =>
          \A j \in 1..(Len(view'.sortedProducts) - 1) :
            LET field == IF view'.sortBy = "quantity" THEN "total_quantity"
                         ELSE "total_revenue"
            IN view'.sortedProducts[j][field]
                 >= view'.sortedProducts[j + 1][field]
     /\ (/\ view.kind = "trending"
         /\ view'.kind = "trending"
         /\ view'.sortBy # view.sortBy
         /\ view'.startDate = view.startDate
         /\ view'.endDate = view.endDate)
        => RowBag(view'.sortedProducts) = RowBag(view.sortedProducts)]_vars

\* C21 witness: P1 (quantity 10, revenue 1000) and P2 (quantity 15, revenue
\* 800) are shown as P1, P2 by revenue
C21_Witness ==
  /\ view.kind = "trending"
  /\ view.sortBy = "revenue"
  /\ view.sortedProducts
       = <<[product_id |-> 1, product_name |-> "P01",
            total_quantity |-> 10, total_revenue |-> 1000],
           [product_id |-> 2, product_name |-> "P02",
            total_quantity |-> 15, total_revenue |-> 800]>>

\* C22: every summary row of the profits view and of the trending view has
\* total_quantity > 0, so that its averages revenue / quantity and cost /
\* quantity are defined
C22_QuantityPositive ==
  /\ view.kind = "profits" =>
       \A j \in 1..Len(view.data.products) :
         /\ view.data.products[j].total_quantity > 0
         /\ view.data.products[j].avg_sale_price.den # 0
         /\ view.data.products[j].avg_cost_price.den # 0
  /\ view.kind = "trending" =>
       \A j \in 1..Len(view.sortedProducts) :
         view.sortedProducts[j].total_quantity > 0

\* the product of record i of rows: its product_id, or its product_name when
\* the product_id is absent
ProductOf(i) ==
  IF rows[i].product_id # NULL THEN <<"id", rows[i].product_id>>
  ELSE <<"name", rows[i].product_name>>

\* C23: every view has one summary row for each product with records in the
\* range (a product being told by its product_id, or by its product_name
\* when the product_id is absent), and the row sums the records of that
\* product alone
C23_OneRowPerProduct ==
  view.kind # "none" =>
    LET S == InRangeRows(view.startDate, view.endDate)
        inRange == {ProductOf(i) : i \in S}
        quantityField == IF view.kind = "product-sales" THEN "quantity"
                         ELSE "total_quantity"
        revenueField == IF view.kind = "product-sales" THEN "revenue"
                        ELSE "total_revenue"
    IN /\ Len(ViewRows)
            = IF view.kind = "trending" /\ Cardinality(inRange) > TopN
              THEN TopN ELSE Cardinality(inRange)
       /\ Cardinality(inRange) <= TopN =>
            \A P \in inRange :
              \E j \in 1..Len(ViewRows) :
                LET SP == {i \in S : ProductOf(i) = P}
                IN /\ ViewRows[j][quantityField] = ColumnSum("quantity", SP)
                   /\ ViewRows[j][revenueField] = ColumnSum("total_price", SP)

\* the sum of f[r] over the rows r of table B, each as often as B holds it
TableSum(B, f) ==
  SumOver([r \in DOMAIN B |-> B[r] * f[r]], DOMAIN B)

\* C24 as stated: every sales_record has total_profit = total_price -
\* cost_per_unit * quantity
C24_ProfitFromTotalPrice ==
  \A r \in DOMAIN sales_records :
    r.total_profit = r.total_price - r.cost_per_unit * r.quantity

\* C24: every sales_record whose total_price is unit_price * quantity has
\* total_profit = total_price - cost_per_unit * quantity; when all records
\* are such, their total_profit sums to revenue minus cost
C24_ProfitOfConsistentItems ==
  /\ \A r \in DOMAIN sales_records :
       r.total_price = r.unit_price * r.quantity =>
         r.total_profit = r.total_price - r.cost_per_unit * r.quantity
  /\ (\A r \in DOMAIN sales_records :
        r.total_price = r.unit_price * r.quantity) =>
       TableSum(sales_records,
                [r \in DOMAIN sales_records |-> r.total_profit])
         = TableSum(sales_records,
                    [r \in DOMAIN sales_records |-> r.total_price])
           - TableSum(sales_records,
                      [r \in DOMAIN sales_records |->
                         r.cost_per_unit * r.quantity])

\* C24 witness: the records of two items with total_price = unit_price *
\* quantity, one sold at a cost of 2 and one without a cost
C24_Witness ==
  /\ Count(sales_records) = 2
  /\ \A r \in DOMAIN sales_records :
       r.total_price = r.unit_price * r.quantity
  /\ \E r \in DOMAIN sales_records : r.cost_per_unit = 2
  /\ \E r \in DOMAIN sales_records :
       r.cost_per_unit = 0 /\ r.total_profit = r.total_price

\* C25: every generated number is greater than every number generated
\* before it, whatever was deleted in between, so that no number is
\* generated twice
C25_NeverReused ==
  \A j, k \in 1..Len(numbers) : j < k => numbers[j] < numbers[k]

====
